---- MODULE Spec2Model ----
(***************************************************************************)
(* A model of slackprep's reassembly pipeline (src/slackprep/reassemble.py) *)
(* Text is modelled at character level: a string is a sequence of          *)
(* one-character strings, so that substring tests, strip, split and the    *)
(* three re.sub rewrites are computed the way Python computes them.        *)
(***************************************************************************)
EXTENDS Integers, Sequences, FiniteSets, TLC

VARIABLES
    \* ---- reassemble_messages: parameters
    group_turns, absolute_timestamps, bot_users, filter_bots,
    filter_automation_channels, filter_automated_content,
    \* ---- reassemble_messages: locals
    output_md, output_jsonl, previous_user, current_block, last_ts,
    stats, toc_entries,
    \* ---- position in the two loops of reassemble_messages
    pc,
    \* ---- history of the input read so far (what was on disk)
    dirs, seen, block_src,
    \* ---- rendering of one message body (lines 170-180)
    t_raw, t_parts, t_new, t_text, t_pc,
    \* ---- the attachment loop of one message (lines 187-201)
    a_todo, a_text, a_files, a_done,
    \* ---- the reassemble command (cli.py, handle_reassemble): the parsed
    \* arguments, the handler's position, the artifact it has written
    args, h_pc, written,
    \* ---- cleanup_slackdump (cleanup_slackdump.py): the export folder, the
    \* dry_run parameter, the function's position, the ids it collected, and
    \* the paths it has deleted
    root, dry_run, c_pc, referenced_files, removed

vars == << group_turns, absolute_timestamps, bot_users, filter_bots,
           filter_automation_channels, filter_automated_content,
           output_md, output_jsonl, previous_user, current_block, last_ts,
           stats, toc_entries, pc, dirs, seen, block_src,
           t_raw, t_parts, t_new, t_text, t_pc,
           a_todo, a_text, a_files, a_done,
           args, h_pc, written,
           root, dry_run, c_pc, referenced_files, removed >>

pipelineVars == << group_turns, absolute_timestamps, bot_users, filter_bots,
                   filter_automation_channels, filter_automated_content,
                   output_md, output_jsonl, previous_user, current_block, last_ts,
                   stats, toc_entries, pc, dirs, seen, block_src >>

textVars == << t_raw, t_parts, t_new, t_text, t_pc >>

attachVars == << a_todo, a_text, a_files, a_done >>

cleanupVars == << root, dry_run, c_pc, referenced_files, removed >>

commandVars == << args, h_pc, written, root, dry_run, c_pc, referenced_files, removed >>

(***************************************************************************)
(* Bounds of the model.                                                    *)
(***************************************************************************)
\* directories entered plus message records read in one run
MaxEvents == 4
\* message records per calendar day of the modelled clock
TicksPerDay == 2
\* pieces concatenated into one raw body for the rendering specification
MaxPieces == 4
\* attachment references of one message for the attachment specification
MaxFiles == 2

(***************************************************************************)
(* Strings as sequences of characters.                                     *)
(***************************************************************************)
LowerLetters == {"a","b","c","d","e","f","g","h","i","j","k","l","m",
                 "n","o","p","q","r","s","t","u","v","w","x","y","z"}

UpperLetters == {"A","B","C","D","E","F","G","H","I","J","K","L","M",
                 "N","O","P","Q","R","S","T","U","V","W","X","Y","Z"}

Digits == {"0","1","2","3","4","5","6","7","8","9"}

\* str.isspace() characters stripped by str.strip()
Whitespace == {" ", "\n", "\t"}

ToLowerMap == [c \in UpperLetters |->
    CASE c = "A" -> "a" [] c = "B" -> "b" [] c = "C" -> "c" [] c = "D" -> "d"
      [] c = "E" -> "e" [] c = "F" -> "f" [] c = "G" -> "g" [] c = "H" -> "h"
      [] c = "I" -> "i" [] c = "J" -> "j" [] c = "K" -> "k" [] c = "L" -> "l"
      [] c = "M" -> "m" [] c = "N" -> "n" [] c = "O" -> "o" [] c = "P" -> "p"
      [] c = "Q" -> "q" [] c = "R" -> "r" [] c = "S" -> "s" [] c = "T" -> "t"
      [] c = "U" -> "u" [] c = "V" -> "v" [] c = "W" -> "w" [] c = "X" -> "x"
      [] c = "Y" -> "y" [] c = "Z" -> "z"]

\* str.lower()
Lower(s) == [i \in 1..Len(s) |-> IF s[i] \in UpperLetters THEN ToLowerMap[s[i]] ELSE s[i]]

\* s[i:i+len(p)] == p, with i a 1-based position
MatchAt(s, i, p) ==
    /\ i >= 1
    /\ i + Len(p) - 1 <= Len(s)
    /\ \A k \in 1..Len(p) : s[i + k - 1] = p[k]

\* p in s
Contains(s, p) == \E i \in 1..(Len(s) - Len(p) + 1) : MatchAt(s, i, p)

\* s.startswith(p)
StartsWith(s, p) == MatchAt(s, 1, p)

\* s.endswith(p)
EndsWith(s, p) == Len(p) <= Len(s) /\ MatchAt(s, Len(s) - Len(p) + 1, p)

\* s[i:j] with 1-based inclusive bounds; empty when j < i
Slice(s, i, j) == IF j < i THEN << >> ELSE SubSeq(s, i, j)

\* str.strip()
Strip(s) ==
    LET keep == {i \in 1..Len(s) : s[i] \notin Whitespace}
    IN  IF keep = {} THEN << >>
        ELSE LET lo == CHOOSE i \in keep : \A k \in keep : i <= k
                 hi == CHOOSE i \in keep : \A k \in keep : k <= i
             IN  SubSeq(s, lo, hi)

\* the first position >= i where p occurs in s, 0 when there is none
FindFrom(s, i, p) ==
    LET hits == {k \in i..(Len(s) - Len(p) + 1) : MatchAt(s, k, p)}
    IN  IF hits = {} THEN 0 ELSE CHOOSE k \in hits : \A h \in hits : k <= h

RECURSIVE SplitFrom(_, _, _)
\* str.split(sep) from position i on: the list of segments
SplitFrom(s, i, sep) ==
    LET k == FindFrom(s, i, sep)
    IN  IF k = 0 THEN << Slice(s, i, Len(s)) >>
        ELSE << Slice(s, i, k - 1) >> \o SplitFrom(s, k + Len(sep), sep)

\* str.split(sep)
Split(s, sep) == SplitFrom(s, 1, sep)

RECURSIVE Concat(_)
\* "".join(parts)
Concat(parts) == IF parts = << >> THEN << >> ELSE Head(parts) \o Concat(Tail(parts))

RECURSIVE JoinWith(_, _)
\* sep.join(parts)
JoinWith(sep, parts) ==
    IF parts = << >> THEN << >>
    ELSE IF Len(parts) = 1 THEN Head(parts)
    ELSE Head(parts) \o sep \o JoinWith(sep, Tail(parts))

\* the end of the maximal run of characters of class cls that starts at i
\* (i - 1 when s[i] is not in the class): a greedy [cls]* from position i
RunEnd(s, i, cls) ==
    LET stops == {k \in i..Len(s) : s[k] \notin cls}
    IN  IF stops = {} THEN Len(s)
        ELSE (CHOOSE k \in stops : \A h \in stops : k <= h) - 1

\* the same, for a negated class [^excl]
RunEndNot(s, i, excl) ==
    LET stops == {k \in i..Len(s) : s[k] \in excl}
    IN  IF stops = {} THEN Len(s)
        ELSE (CHOOSE k \in stops : \A h \in stops : k <= h) - 1

(***************************************************************************)
(* The user directory (load_users, load_bot_users).                        *)
(***************************************************************************)
U1 == <<"U","1">>
U2 == <<"U","2">>
Ann == <<"A","n","n">>
Bob == <<"B","o","b">>
Unknown == <<"U","n","k","n","o","w","n">>

\* the dict load_users returns for the modelled users.json
user_lookup == (U1 :> Ann) @@ (U2 :> Bob)

\* user_lookup.get(key, default)
DictGet(d, key, default) == IF key \in DOMAIN d THEN d[key] ELSE default

(***************************************************************************)
(* normalize_links_and_mentions: three re.sub passes and a strip.          *)
(***************************************************************************)
Http == <<"h","t","t","p">>
SchemeSep == <<":","/","/">>

\* the position after "https?" when the text at i reads "<http" or "<https"
LinkSchemeEnd(s, i) == IF i + 5 <= Len(s) /\ s[i + 5] = "s" THEN i + 6 ELSE i + 5

\* r"<(https?://[^|>]+)\|([^>]+)>" matched at position i: the bounds of the
\* two groups and of the match, ok = FALSE when there is no match at i
LinkMatch(s, i) ==
    LET p  == LinkSchemeEnd(s, i)
        u  == p + 3
        e1 == RunEndNot(s, u, {"|", ">"})
        v  == e1 + 2
        e2 == RunEndNot(s, v, {">"})
    IN  [ok |-> /\ MatchAt(s, i, <<"<">> \o Http)
                /\ MatchAt(s, p, SchemeSep)
                /\ e1 >= u
                /\ e1 + 1 <= Len(s) /\ s[e1 + 1] = "|"
                /\ e2 >= v
                /\ e2 + 1 <= Len(s),
         g1 |-> Slice(s, i + 1, e1),
         g2 |-> Slice(s, v, e2),
         end |-> e2 + 1]

RECURSIVE SubLinks(_, _)
\* re.sub(r"<(https?://[^|>]+)\|([^>]+)>", r"[\2](\1)", text), from position i
SubLinks(s, i) ==
    IF i > Len(s) THEN << >>
    ELSE LET m == LinkMatch(s, i)
         IN  IF m.ok
             THEN <<"[">> \o m.g2 \o <<"]", "(">> \o m.g1 \o <<")">> \o SubLinks(s, m.end + 1)
             ELSE << s[i] >> \o SubLinks(s, i + 1)

\* r"<@([A-Z0-9]+)>" matched at position i
MentionMatch(s, i) ==
    LET e == RunEnd(s, i + 2, UpperLetters \cup Digits)
    IN  [ok |-> /\ MatchAt(s, i, <<"<", "@">>)
                /\ e >= i + 2
                /\ e + 1 <= Len(s) /\ s[e + 1] = ">",
         uid |-> Slice(s, i + 2, e),
         end |-> e + 1]

\* replace_mention
replace_mention(uid, lookup) == <<"@">> \o DictGet(lookup, uid, uid)

RECURSIVE SubMentions(_, _, _)
\* re.sub(r"<@([A-Z0-9]+)>", replace_mention, text), from position i
SubMentions(s, i, lookup) ==
    IF i > Len(s) THEN << >>
    ELSE LET m == MentionMatch(s, i)
         IN  IF m.ok
             THEN replace_mention(m.uid, lookup) \o SubMentions(s, m.end + 1, lookup)
             ELSE << s[i] >> \o SubMentions(s, i + 1, lookup)

\* EMOJI_MAP; a glyph is one character of the rendered text
EMOJI_MAP ==
    (<<"s","m","i","l","e">> :> "U+1F604") @@
    (<<"l","a","u","g","h","i","n","g">> :> "U+1F606") @@
    (<<"r","o","l","l","i","n","g","_","o","n","_","t","h","e","_",
       "f","l","o","o","r","_","l","a","u","g","h","i","n","g">> :> "U+1F923") @@
    (<<"w","i","n","k">> :> "U+1F609") @@
    (<<"t","h","u","m","b","s","u","p">> :> "U+1F44D") @@
    (<<"t","h","u","m","b","s","d","o","w","n">> :> "U+1F44E") @@
    (<<"t","h","i","n","k","i","n","g","_","f","a","c","e">> :> "U+1F914") @@
    (<<"h","e","a","r","t">> :> "U+2764") @@
    (<<"f","i","r","e">> :> "U+1F525") @@
    (<<"e","y","e","s">> :> "U+1F440") @@
    (<<"w","a","v","e">> :> "U+1F44B") @@
    (<<"t","a","d","a">> :> "U+1F389") @@
    (<<"c","l","a","p">> :> "U+1F44F") @@
    (<<"p","o","o","p">> :> "U+1F4A9")

\* the characters of [a-zA-Z0-9_+]
EmojiNameChars == LowerLetters \cup UpperLetters \cup Digits \cup {"_", "+"}

\* r":([a-zA-Z0-9_+]+):" matched at position i
EmojiMatch(s, i) ==
    LET e == RunEnd(s, i + 1, EmojiNameChars)
    IN  [ok |-> /\ MatchAt(s, i, <<":">>)
                /\ e >= i + 1
                /\ e + 1 <= Len(s) /\ s[e + 1] = ":",
         name |-> Slice(s, i + 1, e),
         end |-> e + 1]

\* emoji_sub
emoji_sub(name) ==
    IF name \in DOMAIN EMOJI_MAP THEN << EMOJI_MAP[name] >>
    ELSE <<"[","e","m","o","j","i",":">> \o name \o <<"]">>

RECURSIVE SubEmoji(_, _)
\* re.sub(r":([a-zA-Z0-9_+]+):", emoji_sub, text), from position i
SubEmoji(s, i) ==
    IF i > Len(s) THEN << >>
    ELSE LET m == EmojiMatch(s, i)
         IN  IF m.ok
             THEN emoji_sub(m.name) \o SubEmoji(s, m.end + 1)
             ELSE << s[i] >> \o SubEmoji(s, i + 1)

\* normalize_links_and_mentions(text, user_lookup)
normalize_links_and_mentions(text, lookup) ==
    Strip(SubEmoji(SubMentions(SubLinks(text, 1), 1, lookup), 1))

(***************************************************************************)
(* Code-fence handling of reassemble_messages (lines 170-180).             *)
(***************************************************************************)
\* the backquote character (written as a name: the character itself cannot
\* stand in a TLA+ string)
Backtick == "BACKTICK"
Fence == <<Backtick, Backtick, Backtick>>
FenceOpen == <<"\n", Backtick, Backtick, Backtick, "\n">>
FenceClose == <<"\n", Backtick, Backtick, Backtick, "\n">>

\* RenderPart were the fenced segments normalized as well
RenderPartRewritingFenced(i, part, lookup) ==
    IF i % 2 = 0 THEN normalize_links_and_mentions(part, lookup)
    ELSE FenceOpen \o normalize_links_and_mentions(part, lookup) \o FenceClose

\* one iteration of "for i, part in enumerate(parts)": i is Python's index
RenderPart(i, part, lookup) ==
    IF i % 2 = 0 THEN normalize_links_and_mentions(part, lookup)
    ELSE FenceOpen \o Strip(part) \o FenceClose

\* the list "new" once the loop over parts has run
RenderParts(parts, lookup) == [k \in 1..Len(parts) |-> RenderPart(k - 1, parts[k], lookup)]

\* lines 170-180: the rendered text of a raw body, before attachments
RenderBody(raw, lookup) ==
    IF Contains(raw, Fence)
    THEN Concat(RenderParts(Split(raw, Fence), lookup))
    ELSE normalize_links_and_mentions(raw, lookup)

(***************************************************************************)
(* Content filters.                                                        *)
(***************************************************************************)
automation_patterns ==
    << <<"n","o","t","i","f","i","c","a","t","i","o","n">>, <<"a","l","e","r","t">>, <<"t","e","s","t">>, <<"c","i">>, <<"d","e","p","l","o","y">>, <<"b","u","i","l","d">>,
       <<"m","o","n","i","t","o","r">>, <<"s","t","a","t","u","s">>, <<"b","o","t">>, <<"a","u","t","o","m","a","t","i","o","n">>, <<"n","i","g","h","t","l","y">> >>

\* is_automation_channel without the lower()
is_automation_channel_case_sensitive(channel_name) ==
    \E k \in 1..Len(automation_patterns) : Contains(channel_name, automation_patterns[k])

\* is_automation_channel(channel_name)
is_automation_channel(channel_name) ==
    LET name_lower == Lower(channel_name)
    IN  \E k \in 1..Len(automation_patterns) : Contains(name_lower, automation_patterns[k])

automation_indicators ==
    << <<"n","e","w"," ","a","d","v","i","s","o","r","i","e","s"," ","f","o","u","n","d">>,
       <<"d","e","p","l","o","y","m","e","n","t"," ","c","o","m","p","l","e","t","e","d">>,
       <<"b","u","i","l","d"," ","s","u","c","c","e","e","d","e","d">>, <<"b","u","i","l","d"," ","f","a","i","l","e","d">>,
       <<"p","i","p","e","l","i","n","e">>, <<"j","o","b"," ","c","o","m","p","l","e","t","e","d">>,
       <<"a","l","e","r","t",":">>, <<"w","a","r","n","i","n","g",":">>,
       <<"a","u","t","o","m","a","t","e","d"," ","r","e","p","o","r","t">>,
       <<"[","e","m","o","j","i",":","r","o","c","k","e","t","]">>,
       <<"U+1F680"," ","*","N","e","w">>, <<"*","N","e","w"," ","a","d","v","i","s","o","r","i","e","s","*">>,
       <<"U+2705"," ","d","e","p","l","o","y","e","d">>, <<"U+274C"," ","f","a","i","l","e","d">>,
       <<"m","e","r","g","e"," ","r","e","q","u","e","s","t">>, <<"p","u","l","l"," ","r","e","q","u","e","s","t"," ","m","e","r","g","e","d">> >>

\* is_automated_content(text)
is_automated_content(text) ==
    IF text = << >> THEN FALSE
    ELSE LET text_lower == Lower(text)
         IN  \E k \in 1..Len(automation_indicators) :
                 Contains(text_lower, Lower(automation_indicators[k]))

(***************************************************************************)
(* Attachments (lines 6, 63-64, 182-201).                                  *)
(***************************************************************************)
ARCHIVE_EXTENSIONS == { <<".","t","a","r",".","g","z">>, <<".","z","i","p">>, <<".","t","g","z">>, <<".","g","z">> }

IMAGE_EXTENSIONS == { <<".","p","n","g">>, <<".","j","p","g">>, <<".","j","p","e","g">>, <<".","g","i","f">>, <<".","w","e","b","p">>,
                      <<".","b","m","p">>, <<".","t","i","f","f">> }

\* is_archive(filename): defined by the module, called nowhere in it
is_archive(filename) == \E ext \in ARCHIVE_EXTENSIONS : EndsWith(filename, ext)

\* is_image(filename)
is_image(filename) == \E ext \in IMAGE_EXTENSIONS : EndsWith(Lower(filename), ext)

\* a value that may be None: << >> is None, << v >> is the value v
None == << >>
Some(v) == << v >>

\* file.get("name", "file")
FileName(file) == IF file.name = None THEN <<"f","i","l","e">> ELSE file.name[1]

\* f"{file_id}" for file_id = file.get("id"): None is formatted as "None"
FileIdText(file) == IF file.id = None THEN <<"N","o","n","e">> ELSE file.id[1]

\* relative_path = f"__uploads/{file_id}/{filename}"
RelativePath(file) == <<"_","_","u","p","l","o","a","d","s","/">> \o FileIdText(file) \o <<"/">> \o FileName(file)

\* the type the loop assigns to one attachment (lines 194-199)
FileType(filename) == IF is_image(filename) THEN "image" ELSE "file"

\* the inline reference the loop appends to the text (lines 195, 198)
InlineRef(file) ==
    LET filename == FileName(file)
        relative_path == RelativePath(file)
    IN  IF is_image(filename)
        THEN <<"\n","!","[">> \o filename \o <<"]","(">> \o relative_path \o <<")">>
        ELSE <<"\n","U+1F4E6"," ","A","t","t","a","c","h","e","d"," ","f","i","l","e",":"," ","[">> \o <<Backtick>> \o filename \o <<Backtick>>
                 \o <<"]","(">> \o relative_path \o <<")">>

\* the descriptor appended to files (line 201)
Descriptor(file) ==
    [name |-> FileName(file), type |-> FileType(FileName(file)), path |-> RelativePath(file)]

RECURSIVE AttachText(_, _)
\* the text after the loop "for file in msg.get('files', [])" has run
AttachText(text, files) ==
    IF files = << >> THEN text
    ELSE AttachText(text \o InlineRef(Head(files)), Tail(files))

\* the list files after the loop has run
AttachFiles(files) == [k \in 1..Len(files) |-> Descriptor(files[k])]

(***************************************************************************)
(* The input of a run: conversation directories and message records.       *)
(***************************************************************************)
\* a channel, a direct message and a group message; the group's name holds
\* the keyword "ci", in capitals
General == <<"d","e","v">>
Dm == <<"D","1">>
Mpdm == <<"m","p","d","m","-","a","-","-","C","I","-","1">>

\* the directory names a run may meet
DirNames == {General, Dm, Mpdm}

\* raw bodies: one that normalization rewrites, one with automated phrasing
Wave == <<":","w","a","v","e",":">>
Auto == <<"A","l","e","r","t",":">>

\* the message records a file may hold (user, text, files)
Msgs == [user : {U1, U2}, text : {Wave, Auto}, files : {<< >>}]

\* (filter_bots, bot_users) as callers pass them: handle_reassemble passes
\* None unless the filter is on, and then the set load_bot_users gives, which
\* may be empty; a direct call may also turn the filter on and pass no set
BotChoices == { <<FALSE, None>>, <<TRUE, None>>, <<TRUE, Some({})>>, <<TRUE, Some({U1})>> }

(***************************************************************************)
(* Timestamps: ts_raw counts message records; a day has TicksPerDay of them.*)
(***************************************************************************)
\* datetime.fromtimestamp(ts_raw).strftime(ts_fmt) (lines 167-168)
FormatTs(ts_raw, absolute) ==
    IF absolute THEN <<"date-time", ts_raw \div TicksPerDay, ts_raw % TicksPerDay>>
    ELSE <<"date", ts_raw \div TicksPerDay>>

\* datetime.fromtimestamp(ts_raw).isoformat() (line 212)
IsoFormat(ts_raw) == <<"iso", ts_raw \div TicksPerDay, ts_raw % TicksPerDay>>

(***************************************************************************)
(* reassemble_messages.                                                    *)
(***************************************************************************)
\* "not x" for a value that may be None or a string (or a list)
Falsy(opt) == opt = None \/ opt[1] = << >>

\* "not x" for a value that may be None or a set
FalsySet(opt) == opt = None \/ opt[1] = {}

RECURSIVE Replace(_, _, _, _)
\* str.replace(old, new), from position i
Replace(s, i, old, new) ==
    IF i > Len(s) THEN << >>
    ELSE IF MatchAt(s, i, old) THEN new \o Replace(s, i + Len(old), old, new)
    ELSE << s[i] >> \o Replace(s, i + 1, old, new)

\* lines 114-123: the kind of a conversation directory
ConvoType(name) ==
    IF StartsWith(name, <<"D">>) THEN "DM"
    ELSE IF StartsWith(name, <<"m","p","d","m","-">>) THEN "Group"
    ELSE "Channel"

\* lines 115-123: the counter the categorisation increments
CountConvo(st, name) ==
    IF StartsWith(name, <<"D">>) THEN [st EXCEPT !.dms = @ + 1]
    ELSE IF StartsWith(name, <<"m","p","d","m","-">>) THEN [st EXCEPT !.group_msgs = @ + 1]
    ELSE [st EXCEPT !.channels = @ + 1]

\* lines 132-135: convo_display_name
DisplayName(name) ==
    IF StartsWith(name, <<"m","p","d","m","-">>)
    THEN Replace(Replace(Replace(name, 1, <<"m","p","d","m","-">>, <<"G","r","o","u","p",":"," ">>), 1, <<"-","-">>, <<","," ">>),
                 1, <<"-","1">>, << >>)
    ELSE name

\* line 137: section_header, kept as the values the f-string interpolates
SectionHeader(convo_type, display_name) ==
    [kind |-> "heading", type |-> convo_type, name |-> display_name]

\* lines 109-110: the string flush_block appends, kept as the values it
\* interpolates; body is "\n".join(block); src lists the records of the block
TurnEntry(name, ts, block, src) ==
    [kind |-> "turn", name |-> name, ts |-> ts, body |-> JoinWith(<<"\n">>, block),
     src |-> src]

\* flush_block(name, ts, block): the value of output_md afterwards
flush_block(md, name, ts, block, src) ==
    IF block = << >> \/ Falsy(name) \/ Falsy(ts) THEN md
    ELSE Append(md, TurnEntry(name[1], ts[1], block, src))

\* The values the loops compute from one directory name or one record depend
\* on nothing else, so they are tabulated once over the modelled input
\* (f @@ << >> is f, built as an explicit table).
AutomationChannelOf == [name \in DirNames |-> is_automation_channel(name)] @@ << >>
ConvoTypeOf == [name \in DirNames |-> ConvoType(name)] @@ << >>
DisplayNameOf == [name \in DirNames |-> DisplayName(name)] @@ << >>
AutomatedContentOf == [msg \in Msgs |-> is_automated_content(msg.text)] @@ << >>
\* lines 170-199: the rendered text of a record, attachments appended
RenderedOf == [msg \in Msgs |-> AttachText(RenderBody(msg.text, user_lookup), msg.files)] @@ << >>
\* lines 187-201: the descriptors of a record's attachments
FilesOf == [msg \in Msgs |-> AttachFiles(msg.files)] @@ << >>

\* line 126: the condition under which a directory is skipped
SkipsChannel(name) == filter_automation_channels /\ AutomationChannelOf[name]

\* DropsBot without the membership test
DropsBotAnyAuthor(user_id) == filter_bots /\ ~FalsySet(bot_users)

\* line 155: the condition under which a record is dropped as a bot message
DropsBot(user_id) == filter_bots /\ ~FalsySet(bot_users) /\ user_id \in bot_users[1]

\* line 162: the condition under which a record is dropped as automated content
DropsContent(msg) == filter_automated_content /\ AutomatedContentOf[msg]

\* line 202: the condition under which a message joins the current block
JoinsBlock(name) == group_turns /\ Some(name) = previous_user

\* lines 211-218: the structured record of one surviving message
JsonRow(ts_raw, user_id, name, raw, text, files, src) ==
    [timestamp |-> IsoFormat(ts_raw), user_id |-> user_id, user_name |-> name,
     raw_text |-> raw, rendered_text |-> text, files |-> files, src |-> src]

\* lines 93-104: the state reassemble_messages starts from
InitRun ==
    /\ output_md = << >>
    /\ output_jsonl = << >>
    /\ previous_user = None
    /\ current_block = << >>
    /\ last_ts = None
    /\ stats = [channels |-> 0, dms |-> 0, group_msgs |-> 0,
                filtered_channels |-> 0, filtered_bot_msgs |-> 0,
                filtered_content_msgs |-> 0]
    /\ toc_entries = << >>
    /\ pc = "dirs"
    /\ dirs = << >>
    /\ seen = << >>
    /\ block_src = << >>

\* the rendering and attachment variables, at rest
IdleText == t_raw = << >> /\ t_parts = << >> /\ t_new = << >> /\ t_text = << >> /\ t_pc = "idle"
IdleAttach == a_todo = << >> /\ a_text = << >> /\ a_files = << >> /\ a_done = << >>

\* the cleanup variables, at rest: cleanup_slackdump is not running
IdleCleanup ==
    /\ root = [convos |-> << >>, uploads |-> None, meta |-> {}]
    /\ dry_run = TRUE
    /\ c_pc = "idle"
    /\ referenced_files = {}
    /\ removed = {}

\* the command variables, at rest: no command is running
IdleCommand ==
    /\ args = [format |-> "markdown", all_turns |-> FALSE, absolute_timestamps |-> FALSE]
    /\ h_pc = "idle"
    /\ written = None
    /\ IdleCleanup

Init ==
    /\ group_turns \in BOOLEAN
    /\ absolute_timestamps \in BOOLEAN
    /\ \E choice \in BotChoices : filter_bots = choice[1] /\ bot_users = choice[2]
    /\ filter_automation_channels \in BOOLEAN
    /\ filter_automated_content \in BOOLEAN
    /\ InitRun
    /\ IdleText
    /\ IdleAttach
    /\ IdleCommand

params == << group_turns, absolute_timestamps, bot_users, filter_bots,
             filter_automation_channels, filter_automated_content >>

\* how much of the input has been read
Events == Len(dirs) + Len(seen)

\* lines 127-129: count the skipped directory and "continue" with the next
SkipConvo(name) ==
    /\ stats' = [CountConvo(stats, name) EXCEPT !.filtered_channels = @ + 1]
    /\ pc' = "dirs"
    /\ UNCHANGED << output_md, toc_entries >>

\* lines 112-146: one iteration of "for convo_dir in convo_dirs" up to the
\* file loop: categorise, then skip the directory or emit its heading
BeginConvo(name) ==
    /\ pc \in {"dirs", "msgs"}
    /\ Events < MaxEvents
    /\ dirs' = Append(dirs, [name |-> name, skipped |-> SkipsChannel(name)])
    /\ IF SkipsChannel(name)
       THEN SkipConvo(name)
       ELSE /\ stats' = CountConvo(stats, name)
            /\ output_md' = Append(output_md, SectionHeader(ConvoTypeOf[name], DisplayNameOf[name]))
            /\ toc_entries' = Append(toc_entries,
                                     [name |-> DisplayNameOf[name], type |-> ConvoTypeOf[name],
                                      index |-> Len(output_md) + 1])
            /\ pc' = "msgs"
    /\ UNCHANGED << params, output_jsonl, previous_user, current_block, last_ts,
                    seen, block_src, textVars, attachVars, commandVars >>

\* DropRecord were the drop left uncounted
DropRecordUncounted(counted) ==
    UNCHANGED << stats, output_md, output_jsonl, previous_user, current_block, last_ts,
                 block_src >>

\* DropRecord as it would be were the record dropped after the aggregator had
\* taken note of it: the pending turn loses its author
DropRecordBreakingTurn(counted) ==
    /\ stats' = counted
    /\ previous_user' = None
    /\ UNCHANGED << output_md, output_jsonl, current_block, last_ts, block_src >>

\* lines 156-157 and 163-164: count the drop and "continue": the record
\* reaches neither the aggregator nor the outputs
DropRecord(counted) ==
    /\ stats' = counted
    /\ UNCHANGED << output_md, output_jsonl, previous_user, current_block, last_ts,
                    block_src >>

\* Aggregate were the block's timestamp taken from its latest message
AggregateRestampingBlock(name, ts, text, id) ==
    IF JoinsBlock(name)
    THEN /\ current_block' = current_block \o << << >>, text >>
         /\ block_src' = Append(block_src, id)
         /\ last_ts' = Some(ts)
         /\ UNCHANGED << output_md, previous_user >>
    ELSE /\ output_md' = flush_block(output_md, previous_user, last_ts,
                                     current_block, block_src)
         /\ current_block' = << text >>
         /\ block_src' = << id >>
         /\ previous_user' = Some(name)
         /\ last_ts' = Some(ts)

\* lines 202-209: the turn aggregator's step for one surviving message
Aggregate(name, ts, text, id) ==
    IF JoinsBlock(name)
    THEN /\ current_block' = current_block \o << << >>, text >>
         /\ block_src' = Append(block_src, id)
         /\ UNCHANGED << output_md, previous_user, last_ts >>
    ELSE /\ output_md' = flush_block(output_md, previous_user, last_ts,
                                     current_block, block_src)
         /\ current_block' = << text >>
         /\ block_src' = << id >>
         /\ previous_user' = Some(name)
         /\ last_ts' = Some(ts)

\* RowsAfter were the append placed in the branch that starts a new block
RowsAfterPerTurn(rows, row, name) == IF JoinsBlock(name) THEN rows ELSE Append(rows, row)

\* line 211: output_jsonl.append(row), for the message of author name
RowsAfter(rows, row, name) == Append(rows, row)

\* lines 151-218: one iteration of "for msg in messages"
ProcessMsg(msg) ==
    /\ pc = "msgs"
    /\ Events < MaxEvents
    /\ LET user_id == msg.user
           raw     == msg.text
           ts_raw  == Len(seen) + 1
           id      == Len(seen) + 1
       IN
       /\ seen' = Append(seen, [convo |-> Len(dirs), user |-> user_id, text |-> raw,
                                files |-> msg.files, ts |-> ts_raw])
       /\ IF DropsBot(user_id)
          THEN DropRecord([stats EXCEPT !.filtered_bot_msgs = @ + 1])
          ELSE IF DropsContent(msg)
          THEN DropRecord([stats EXCEPT !.filtered_content_msgs = @ + 1])
          ELSE LET name  == DictGet(user_lookup, user_id, Unknown)
                   ts    == FormatTs(ts_raw, absolute_timestamps)
                   text  == RenderedOf[msg]
                   files == FilesOf[msg]
               IN  /\ Aggregate(name, ts, text, id)
                   /\ output_jsonl' = RowsAfter(output_jsonl,
                                                JsonRow(ts_raw, user_id, name, raw, text, files, id),
                                                name)
                   /\ UNCHANGED stats
    /\ UNCHANGED << params, toc_entries, pc, dirs, textVars, attachVars, commandVars >>

\* Finish were the flush after the loops left out
FinishWithoutFlush ==
    /\ pc \in {"dirs", "msgs"}
    /\ pc' = "done"
    /\ UNCHANGED << params, output_md, output_jsonl, previous_user, current_block, last_ts,
                    stats, toc_entries, dirs, seen, block_src, textVars, attachVars,
                    commandVars >>

\* line 220 and the return: the flush after the loops
Finish ==
    /\ pc \in {"dirs", "msgs"}
    /\ output_md' = flush_block(output_md, previous_user, last_ts, current_block, block_src)
    /\ pc' = "done"
    /\ UNCHANGED << params, output_jsonl, previous_user, current_block, last_ts, stats,
                    toc_entries, dirs, seen, block_src, textVars, attachVars, commandVars >>

Next ==
    \/ \E name \in DirNames : BeginConvo(name)
    \/ \E msg \in Msgs : ProcessMsg(msg)
    \/ Finish

Spec == Init /\ [][Next]_vars

(***************************************************************************)
(* Rendering one body, step by step (lines 170-180), over all bodies made   *)
(* of at most MaxPieces pieces.                                            *)
(***************************************************************************)
\* a fence, blanks, plain text, a colon, shortcodes, a mention, a link
Pieces == { Fence, <<" ">>, <<"x">>, <<":">>, <<":","x">>, <<":","w","a","v","e",":">>, <<"<","@","U","1",">">>,
            <<"<","h","t","t","p",":","/","/","a","|","b",">">> }

\* the raw bodies: every concatenation of at most MaxPieces pieces
RawBodies ==
    UNION { { Concat(ps) : ps \in [1..n -> Pieces] } : n \in 0..MaxPieces }

\* the parameters at their defaults and the locals as lines 93-104 set them
IdleRun ==
    /\ group_turns = TRUE
    /\ absolute_timestamps = FALSE
    /\ bot_users = None
    /\ filter_bots = FALSE
    /\ filter_automation_channels = FALSE
    /\ filter_automated_content = FALSE
    /\ InitRun

InitText ==
    /\ IdleRun
    /\ IdleAttach
    /\ IdleCommand
    /\ t_raw \in RawBodies
    /\ t_parts = << >>
    /\ t_new = << >>
    /\ t_text = << >>
    /\ t_pc = "start"

\* lines 170-171 and 179-180: test for a fence; split, or normalize the whole body
TextStart ==
    /\ t_pc = "start"
    /\ IF Contains(t_raw, Fence)
       THEN /\ t_parts' = Split(t_raw, Fence)
            /\ t_pc' = "parts"
            /\ UNCHANGED t_text
       ELSE /\ t_text' = normalize_links_and_mentions(t_raw, user_lookup)
            /\ t_pc' = "done"
            /\ UNCHANGED t_parts
    /\ UNCHANGED << t_raw, t_new, pipelineVars, attachVars, commandVars >>

\* lines 173-177: one iteration of the loop over parts
TextPart ==
    /\ t_pc = "parts"
    /\ Len(t_new) < Len(t_parts)
    /\ t_new' = Append(t_new, RenderPart(Len(t_new), t_parts[Len(t_new) + 1], user_lookup))
    /\ UNCHANGED << t_raw, t_parts, t_text, t_pc, pipelineVars, attachVars, commandVars >>

\* line 178: text = "".join(new)
TextJoin ==
    /\ t_pc = "parts"
    /\ Len(t_new) = Len(t_parts)
    /\ t_text' = Concat(t_new)
    /\ t_pc' = "done"
    /\ UNCHANGED << t_raw, t_parts, t_new, pipelineVars, attachVars, commandVars >>

NextText == TextStart \/ TextPart \/ TextJoin

SpecText == InitText /\ [][NextText]_vars

(***************************************************************************)
(* The attachment loop of one message (lines 187-201), over all lists of   *)
(* at most MaxFiles attachment references.                                 *)
(***************************************************************************)
FileNames == { <<"d","i","a","g","r","a","m",".","P","N","G">>, <<"a","r","c","h","i","v","e",".","t","a","r",".","g","z">>, <<"r","e","p","o","r","t",".","p","d","f">>, <<"b",".","z","i","p">>,
               <<"c",".","t","g","z">>, <<"d",".","g","z">>, <<"e",".","j","p","e","g">> }

\* the entries of a record's "files" list: name and id may each be missing
FileRefs == [name : {None} \cup {Some(n) : n \in FileNames},
             id : {None, Some(<<"F","1">>)}]

FileLists == UNION { [1..n -> FileRefs] : n \in 0..MaxFiles }

InitAttach ==
    /\ IdleRun
    /\ IdleText
    /\ IdleCommand
    /\ a_todo \in FileLists
    /\ a_text = <<"m">>
    /\ a_files = << >>
    /\ a_done = << >>

\* lines 189-201: one iteration of "for file in msg.get('files', [])"
AttachStep ==
    /\ a_todo # << >>
    /\ a_text' = a_text \o InlineRef(Head(a_todo))
    /\ a_files' = Append(a_files, Descriptor(Head(a_todo)))
    /\ a_done' = Append(a_done, Head(a_todo))
    /\ a_todo' = Tail(a_todo)
    /\ UNCHANGED << pipelineVars, textVars, commandVars >>

NextAttach == AttachStep

SpecAttach == InitAttach /\ [][NextAttach]_vars

(***************************************************************************)
(* The reassemble command (cli.py, handle_reassemble, lines 283-381): it   *)
(* derives the filter settings from the parsed arguments, calls            *)
(* reassemble_messages, unpacks what it returns and writes the artifact.   *)
(***************************************************************************)
\* the Namespace objects handle_reassemble is called with: the one the
\* reassemble parser builds (lines 558-590), and the ones handle_fetch and
\* handle_fetch_all build by hand (lines 272-280, 447-455), which carry no
\* filter attribute
ArgSpaces ==
    [format : {"markdown", "jsonl"}, all_turns : BOOLEAN, absolute_timestamps : BOOLEAN,
     filter_bots : BOOLEAN, filter_automation_channels : BOOLEAN,
     filter_automated_content : BOOLEAN, human_only : BOOLEAN]
    \cup [format : {"markdown", "jsonl"}, all_turns : BOOLEAN, absolute_timestamps : {FALSE}]

\* getattr(args, name, default)
GetAttr(a, name, default) == IF name \in DOMAIN a THEN a[name] ELSE default

\* EffectiveFlag with the human-only toggle left out
EffectiveFlagIgnoringToggle(a, name) == GetAttr(a, name, FALSE)

\* lines 288-290: getattr(args, name, False) or getattr(args, 'human_only', False)
EffectiveFlag(a, name) == GetAttr(a, name, FALSE) \/ GetAttr(a, "human_only", FALSE)

\* load_bot_users(users.json): the ids of the users marked is_bot
BotSets == { {}, {U1} }

\* directories entered plus message records read in one run of the command
MaxCliEvents == 3

\* the number of names on the left of the assignment at line 308
UnpackTargets == 2

\* line 229 of reassemble.py: the tuple reassemble_messages returns
ReturnValue == << output_md, output_jsonl, toc_entries, stats >>

InitCli ==
    /\ IdleRun
    /\ IdleText
    /\ IdleAttach
    /\ args \in ArgSpaces
    /\ h_pc = "start"
    /\ written = None
    /\ IdleCleanup

\* lines 288-295 and 308-317: the settings handle_reassemble passes on
CliCall ==
    /\ h_pc = "start"
    /\ filter_bots' = EffectiveFlag(args, "filter_bots")
    /\ filter_automation_channels' = EffectiveFlag(args, "filter_automation_channels")
    /\ filter_automated_content' = EffectiveFlag(args, "filter_automated_content")
    /\ IF filter_bots'
       THEN \E bots \in BotSets : bot_users' = Some(bots)
       ELSE bot_users' = None
    /\ absolute_timestamps' = args.absolute_timestamps
    /\ group_turns' = ~args.all_turns
    /\ h_pc' = "call"
    /\ UNCHANGED << output_md, output_jsonl, previous_user, current_block, last_ts,
                    stats, toc_entries, pc, dirs, seen, block_src,
                    textVars, attachVars, args, written, cleanupVars >>

\* the call at line 308 running: reassemble_messages enters a directory
CliBeginConvo(name) == h_pc = "call" /\ Events < MaxCliEvents /\ BeginConvo(name)

\* the call at line 308 running: reassemble_messages reads a record
CliProcessMsg(msg) == h_pc = "call" /\ Events < MaxCliEvents /\ ProcessMsg(msg)

\* the call at line 308 running: reassemble_messages flushes and returns
CliFinish == h_pc = "call" /\ Finish

\* line 308 "md_lines, jsonl_rows = ..." and, if the unpacking succeeds,
\* lines 319-381: write the artifact and place the attachments.  Unpacking a
\* tuple whose length is not the number of targets raises ValueError.
CliReturn ==
    /\ h_pc = "call"
    /\ pc = "done"
    /\ IF Len(ReturnValue) = UnpackTargets
       THEN /\ written' = Some([format |-> args.format,
                                content |-> IF args.format = "jsonl" THEN ReturnValue[2]
                                            ELSE ReturnValue[1]])
            /\ h_pc' = "done"
       ELSE /\ h_pc' = "raised"
            /\ UNCHANGED written
    /\ UNCHANGED << pipelineVars, textVars, attachVars, args, cleanupVars >>

NextCli ==
    \/ CliCall
    \/ \E name \in DirNames : CliBeginConvo(name)
    \/ \E msg \in Msgs : CliProcessMsg(msg)
    \/ CliFinish
    \/ CliReturn

SpecCli == InitCli /\ [][NextCli]_vars

(***************************************************************************)
(* cleanup_slackdump(root_dir, dry_run) (cleanup_slackdump.py, lines 6-51) *)
(* over small export folders.  root.convos maps each conversation          *)
(* directory to its json files, a json file being the list of its          *)
(* messages and a message the list of its attachment references;           *)
(* root.uploads is the set of folders under __uploads, None when there is  *)
(* no __uploads; root.meta is the set of metadata files present.           *)
(***************************************************************************)
\* messages per json file
MaxCleanMsgs == 1

F1 == <<"F","1">>
F2 == <<"F","2">>
UploadIds == {F1, F2}

\* line 36
optional_files == { <<"c","h","a","n","n","e","l","s",".","j","s","o","n">>, <<"d","m","s",".","j","s","o","n">>,
                    <<"g","r","o","u","p","s",".","j","s","o","n">>, <<"m","p","i","m","s",".","j","s","o","n">> }

\* line 10
keep_files == { <<"u","s","e","r","s",".","j","s","o","n">> }

\* a message: no attachment, one without an id, or one with an id
CleanMsgs == { << >>, << [id |-> None] >> } \cup { << [id |-> Some(f)] >> : f \in UploadIds }

\* what a conversation directory holds: nothing, or one json file
DirContents ==
    { << >> } \cup { << ms >> : ms \in UNION { [1..n -> CleanMsgs] : n \in 0..MaxCleanMsgs } }

Exports ==
    UNION { [convos : [ds -> DirContents],
             uploads : {None} \cup {Some(fs) : fs \in SUBSET UploadIds},
             meta : {{}, {<<"c","h","a","n","n","e","l","s",".","j","s","o","n">>}, optional_files}] : ds \in SUBSET DirNames }

InitCleanup ==
    /\ IdleRun
    /\ IdleText
    /\ IdleAttach
    /\ args = [format |-> "markdown", all_turns |-> FALSE, absolute_timestamps |-> FALSE]
    /\ h_pc = "idle"
    /\ written = None
    /\ root \in Exports
    /\ dry_run \in BOOLEAN
    /\ c_pc = "scan"
    /\ referenced_files = {}
    /\ removed = {}

\* lines 18-24: the ids a directory's messages reference ("if file_id")
IdsIn(dir) ==
    { ref.id[1] : ref \in { dir[j][m][k] : <<j, m, k>> \in
                               { jmk \in (1..Len(dir)) \X (1..MaxCleanMsgs) \X (1..1) :
                                     /\ jmk[2] <= Len(dir[jmk[1]])
                                     /\ jmk[3] <= Len(dir[jmk[1]][jmk[2]])
                                     /\ ~Falsy(dir[jmk[1]][jmk[2]][jmk[3]].id) } } }

\* line 16: the directories whose messages are read
ScannedDir(name) == StartsWith(name, <<"m","p","d","m","-">>)

\* lines 14-24: collect the referenced ids
CleanScan ==
    /\ c_pc = "scan"
    /\ referenced_files' = UNION { IdsIn(root.convos[d]) : d \in {x \in DOMAIN root.convos : ScannedDir(x)} }
    /\ c_pc' = "uploads"
    /\ UNCHANGED << root, dry_run, removed, args, h_pc, written, pipelineVars, textVars, attachVars >>

\* lines 27-33: delete the upload folders whose name was not collected
CleanUploads ==
    /\ c_pc = "uploads"
    /\ LET unused == IF root.uploads = None THEN {}
                     ELSE {f \in root.uploads[1] : f \notin referenced_files}
       IN  IF dry_run \/ unused = {}
           THEN UNCHANGED << root, removed >>
           ELSE /\ root' = [root EXCEPT !.uploads = Some(@[1] \ unused)]
                /\ removed' = removed \cup { <<"upload", f>> : f \in unused }
    /\ c_pc' = "meta"
    /\ UNCHANGED << dry_run, referenced_files, args, h_pc, written, pipelineVars, textVars, attachVars >>

\* lines 36-42: delete the metadata files that are present
CleanMeta ==
    /\ c_pc = "meta"
    /\ LET found == {fname \in optional_files : fname \in root.meta /\ fname \notin keep_files}
       IN  IF dry_run
           THEN UNCHANGED << root, removed >>
           ELSE /\ root' = [root EXCEPT !.meta = @ \ found]
                /\ removed' = removed \cup { <<"file", fname>> : fname \in found }
    /\ c_pc' = "empty"
    /\ UNCHANGED << dry_run, referenced_files, args, h_pc, written, pipelineVars, textVars, attachVars >>

\* lines 45-49: remove the directories of root_dir that hold nothing
CleanEmptyDirs ==
    /\ c_pc = "empty"
    /\ LET empty_convos == {d \in DOMAIN root.convos : root.convos[d] = << >>}
           empty_uploads == root.uploads # None /\ root.uploads[1] = {}
       IN  IF dry_run
           THEN UNCHANGED << root, removed >>
           ELSE /\ root' = [convos |-> [d \in DOMAIN root.convos \ empty_convos |-> root.convos[d]],
                            uploads |-> IF empty_uploads THEN None ELSE root.uploads,
                            meta |-> root.meta]
                /\ removed' = removed \cup { <<"dir", d>> : d \in empty_convos }
                                      \cup (IF empty_uploads THEN { <<"dir", <<"_","_","u","p","l","o","a","d","s">>>> } ELSE {})
    /\ c_pc' = "done"
    /\ UNCHANGED << dry_run, referenced_files, args, h_pc, written, pipelineVars, textVars, attachVars >>

NextCleanup == CleanScan \/ CleanUploads \/ CleanMeta \/ CleanEmptyDirs

SpecCleanup == InitCleanup /\ [][NextCleanup]_vars

(***************************************************************************)
(* Vocabulary of the properties: the records read so far, by position.     *)
(***************************************************************************)
Ids == 1..Len(seen)
IdSeq == [i \in 1..Len(seen) |-> i]
Range(f) == {f[x] : x \in DOMAIN f}
MsgOf(i) == [user |-> seen[i].user, text |-> seen[i].text, files |-> seen[i].files]
NameOf(i) == DictGet(user_lookup, seen[i].user, Unknown)
BotAuthored(i) == bot_users # None /\ seen[i].user \in bot_users[1]
AutomatedText(i) == AutomatedContentOf[MsgOf(i)]
\* record i survives the two per-message filters
Kept(i) == ~(filter_bots /\ BotAuthored(i)) /\ ~(filter_automated_content /\ AutomatedText(i))
Survivors == SelectSeq(IdSeq, Kept)
IsTurn(e) == e.kind = "turn"
IsHeading(e) == e.kind = "heading"
Turns == SelectSeq(output_md, IsTurn)
\* a and b lie in one block: the pending one, or one emitted turn
SameBlock(a, b) ==
    \/ {a, b} \subseteq Range(block_src)
    \/ \E k \in 1..Len(output_md) : IsTurn(output_md[k]) /\ {a, b} \subseteq Range(output_md[k].src)
\* the directory names that hold a keyword, case-insensitively
KeywordDirs ==
    {n \in DirNames : \E k \in 1..Len(automation_patterns) : Contains(Lower(n), automation_patterns[k])}

(***************************************************************************)
(* C1: with group_turns enabled, no emitted turn contains bodies of        *)
(* messages of two different conversations.                                *)
(***************************************************************************)
C1_TurnWithinOneConversation ==
    group_turns =>
        \A k \in 1..Len(output_md) :
            IsTurn(output_md[k]) =>
                \A a, b \in Range(output_md[k].src) : seen[a].convo = seen[b].convo

(***************************************************************************)
(* C2: every turn of a conversation stands in the document list after that *)
(* conversation's heading and before the heading of the next one: the last *)
(* heading before a turn is the heading of the turn's conversation.        *)
(***************************************************************************)
HeadingsUpTo(k) == Cardinality({j \in 1..k : IsHeading(output_md[j])})
HeadingOrdinal(c) == Cardinality({i \in 1..c : ~dirs[i].skipped})

\* C2: the last heading before an emitted turn is the heading of the
\* conversation of each of the turn's messages
C2_TurnUnderItsOwnHeading ==
    \A k \in 1..Len(output_md) :
        IsTurn(output_md[k]) =>
            \A a \in Range(output_md[k].src) : HeadingsUpTo(k) = HeadingOrdinal(seen[a].convo)

(***************************************************************************)
(* C3: when the run returns, the emitted turns are exactly the maximal     *)
(* runs of consecutive surviving messages of one conversation with the     *)
(* same resolved author name (every message its own turn when grouping is  *)
(* disabled), each turn holding the bodies of its run in order, separated  *)
(* by a blank line.                                                        *)
(***************************************************************************)
SameRun(a, b) == group_turns /\ NameOf(a) = NameOf(b) /\ seen[a].convo = seen[b].convo

RECURSIVE MaximalRuns(_)
MaximalRuns(ids) ==
    IF ids = << >> THEN << >>
    ELSE LET rest == MaximalRuns(Tail(ids))
         IN  IF rest # << >> /\ SameRun(Head(ids), Head(rest)[1])
             THEN << << Head(ids) >> \o Head(rest) >> \o Tail(rest)
             ELSE << << Head(ids) >> >> \o rest

BodiesOf(run) == [k \in 1..Len(run) |-> RenderedOf[MsgOf(run[k])]]

\* C3: on return the turns are the maximal same-author runs of each
\* conversation's survivors, bodies joined by a blank line
C3_TurnsAreMaximalRuns ==
    pc = "done" =>
        LET runs == MaximalRuns(Survivors)
            turns == Turns
        IN  /\ Len(turns) = Len(runs)
            /\ \A k \in 1..Len(runs) :
                   /\ turns[k].src = runs[k]
                   /\ turns[k].name = NameOf(runs[k][1])
                   /\ turns[k].body = JoinWith(<<"\n", "\n">>, BodiesOf(runs[k]))

(***************************************************************************)
(* C4: a dropped message never enters the aggregator: the step that drops  *)
(* it leaves previous_user, current_block and last_ts unchanged, and with  *)
(* grouping enabled two successive surviving messages of one conversation  *)
(* with the same author name lie in one block, whatever was dropped        *)
(* between them.                                                           *)
(***************************************************************************)
DroppedRecord(rec) ==
    \/ filter_bots /\ bot_users # None /\ rec.user \in bot_users[1]
    \/ filter_automated_content
           /\ AutomatedContentOf[[user |-> rec.user, text |-> rec.text, files |-> rec.files]]

C4_DropStep ==
    (Len(seen') = Len(seen) + 1 /\ DroppedRecord(seen'[Len(seen')]))
        => UNCHANGED << previous_user, current_block, last_ts >>

C4_MergedAcrossDrops ==
    group_turns =>
        LET survivors == Survivors
        IN  \A j \in 1..(Len(survivors) - 1) :
                LET a == survivors[j]
                    b == survivors[j + 1]
                IN  (NameOf(a) = NameOf(b) /\ seen[a].convo = seen[b].convo) => SameBlock(a, b)

\* C4: dropped records leave the aggregator untouched and do not separate
\* two same-author survivors
C4_DroppedNeverEnterAggregator == [] C4_MergedAcrossDrops /\ [][C4_DropStep]_vars

\* C4 witness: A, dropped, A in one conversation, emitted as one turn
C4_Witness ==
    /\ group_turns
    /\ \E k \in 1..Len(output_md) :
           /\ IsTurn(output_md[k])
           /\ Len(output_md[k].src) = 2
           /\ output_md[k].src[2] = output_md[k].src[1] + 2
           /\ seen[output_md[k].src[1]].convo = seen[output_md[k].src[2]].convo
           /\ ~Kept(output_md[k].src[1] + 1)

(***************************************************************************)
(* C5: with the bot filter enabled and a non-empty bot-id set, the bot     *)
(* drop counter equals the number of records read whose author is in the   *)
(* set, no structured record has an author in the set, and the surviving   *)
(* records are exactly the others (those the automated-content filter, if  *)
(* enabled as well, does not drop).                                        *)
(***************************************************************************)
NotBot(i) == seen[i].user \notin bot_users[1]
NotBotNotAutomated(i) == NotBot(i) /\ ~(filter_automated_content /\ AutomatedText(i))
RowSrcs == [k \in 1..Len(output_jsonl) |-> output_jsonl[k].src]

\* C5: the bot filter drops exactly the records whose author is in the set,
\* and counts each of them
C5_BotFilterExact ==
    (filter_bots /\ bot_users # None /\ bot_users # Some({})) =>
        /\ stats.filtered_bot_msgs = Cardinality({i \in Ids : ~NotBot(i)})
        /\ \A k \in 1..Len(output_jsonl) : output_jsonl[k].user_id \notin bot_users[1]
        /\ RowSrcs = SelectSeq(IdSeq, NotBotNotAutomated)
        /\ ~filter_automated_content => RowSrcs = SelectSeq(IdSeq, NotBot)

\* C5 witness: bot set {U1}, authors [U1, U2, U1]: one survivor from U2, two
\* counted
C5_Witness ==
    /\ filter_bots /\ bot_users = Some({U1}) /\ ~filter_automated_content
    /\ [i \in 1..Len(seen) |-> seen[i].user] = << U1, U2, U1 >>
    /\ Len(output_jsonl) = 1
    /\ output_jsonl[1].user_id = U2
    /\ stats.filtered_bot_msgs = 2

(***************************************************************************)
(* C6: a run with the bot filter requested and no bot-id set ends before   *)
(* any message is processed, and never completes.                          *)
(***************************************************************************)
C6_BotFilterNeedsBotSet ==
    (filter_bots /\ bot_users = None) => (seen = << >> /\ pc # "done")

(***************************************************************************)
(* C7: with the automation-channel filter enabled, entering a directory    *)
(* whose name holds a keyword adds no heading, no table-of-contents entry, *)
(* no turn and no structured record, changes no per-message drop counter   *)
(* and adds exactly one to filtered_channels; none of its records is read. *)
(***************************************************************************)
C7_SkipStep ==
    (/\ Len(dirs') = Len(dirs) + 1
     /\ filter_automation_channels
     /\ dirs'[Len(dirs')].name \in KeywordDirs)
        => /\ UNCHANGED << output_md, toc_entries, output_jsonl, previous_user,
                           current_block, last_ts >>
           /\ stats'.filtered_bot_msgs = stats.filtered_bot_msgs
           /\ stats'.filtered_content_msgs = stats.filtered_content_msgs
           /\ stats'.filtered_channels = stats.filtered_channels + 1

C7_NoRecordOfSkippedRead ==
    filter_automation_channels =>
        /\ \A i \in Ids : dirs[seen[i].convo].name \notin KeywordDirs
        /\ stats.filtered_channels = Cardinality({i \in 1..Len(dirs) : dirs[i].name \in KeywordDirs})
        /\ Len(toc_entries) = Cardinality({i \in 1..Len(dirs) : dirs[i].name \notin KeywordDirs})

\* C7: a keyword directory is skipped whole and counted once
C7_AutomationChannelDropped == [] C7_NoRecordOfSkippedRead /\ [][C7_SkipStep]_vars

\* C7 witness: a keyword directory skipped between two opened conversations
C7_Witness ==
    /\ filter_automation_channels
    /\ Len(dirs) = 3
    /\ dirs[2].name \in KeywordDirs
    /\ stats.filtered_channels = 1
    /\ Len(toc_entries) = 2
    /\ Len(output_jsonl) = 1

(***************************************************************************)
(* C8: the structured records are exactly the surviving messages, one      *)
(* record each, in the order read, and are a function of the input and the *)
(* filter settings alone: group_turns does not occur in the expected list. *)
(***************************************************************************)
ExpectedRow(i) ==
    [timestamp |-> <<"iso", seen[i].ts \div TicksPerDay, seen[i].ts % TicksPerDay>>,
     user_id |-> seen[i].user, user_name |-> NameOf(i), raw_text |-> seen[i].text,
     rendered_text |-> RenderedOf[MsgOf(i)], files |-> FilesOf[MsgOf(i)], src |-> i]

\* C8: output_jsonl is the list of expected rows of the survivors, in order
C8_OneRecordPerSurvivor ==
    LET survivors == Survivors
    IN  /\ Len(output_jsonl) = Len(survivors)
        /\ \A k \in 1..Len(survivors) : output_jsonl[k] = ExpectedRow(survivors[k])

\* C8 witness: two same-author messages give one document turn, two records
C8_Witness ==
    /\ pc = "done"
    /\ group_turns
    /\ Len(output_jsonl) = 2
    /\ Len(Turns) = 1
    /\ Len(Turns[1].src) = 2

(***************************************************************************)
(* C9: when a body holds the fence delimiter, every segment of the split   *)
(* with an odd Python index reaches the rendered body unrewritten, only    *)
(* stripped and wrapped in a fenced block, and every segment with an even  *)
(* index is the output of normalize_links_and_mentions; the rendered body  *)
(* is their concatenation.                                                 *)
(***************************************************************************)
C9_FencedSegmentsVerbatim ==
    (t_pc = "done" /\ Contains(t_raw, Fence)) =>
        LET parts == Split(t_raw, Fence)
        IN  /\ Len(t_new) = Len(parts)
            /\ \A k \in 1..Len(parts) :
                   IF (k - 1) % 2 = 1
                   THEN t_new[k] = <<"\n", Backtick, Backtick, Backtick, "\n">>
                                     \o Strip(parts[k])
                                     \o <<"\n", Backtick, Backtick, Backtick, "\n">>
                   ELSE t_new[k] = Strip(SubEmoji(SubMentions(SubLinks(parts[k], 1), 1, user_lookup), 1))
            /\ t_text = Concat(t_new)

\* C9 witness: a shortcode outside the fence is rewritten, the same
\* shortcode inside is not
C9_Witness ==
    /\ t_pc = "done"
    /\ t_raw = <<":","w","a","v","e",":">> \o Fence \o <<":","w","a","v","e",":">> \o Fence
    /\ t_text = <<"U+1F44B">> \o <<"\n", Backtick, Backtick, Backtick, "\n">>
                  \o <<":","w","a","v","e",":">>
                  \o <<"\n", Backtick, Backtick, Backtick, "\n">>

(***************************************************************************)
(* C10: the descriptor type of every attachment follows from its filename: *)
(* image for an image extension (case-insensitive), archive for a          *)
(* non-image name ending in .tar.gz, .zip, .tgz or .gz, file otherwise.    *)
(***************************************************************************)
ClassifiedType(filename) ==
    IF \E ext \in IMAGE_EXTENSIONS : EndsWith(Lower(filename), ext) THEN "image"
    ELSE IF \E ext \in ARCHIVE_EXTENSIONS : EndsWith(filename, ext) THEN "archive"
    ELSE "file"

\* C10: every descriptor's type is the one its filename classifies to
C10_TypeFollowsFilename ==
    \A k \in 1..Len(a_files) : a_files[k].type = ClassifiedType(a_files[k].name)

(***************************************************************************)
(* C11: an attachment reference with no id is skipped: after the loop the  *)
(* text holds the inline references of exactly the references that have an *)
(* id, the files list holds exactly their descriptors, and a reference     *)
(* with no filename is rendered under the name "file".                     *)
(***************************************************************************)
HasId(file) == file.id # None

\* C11: only the references that have an id are rendered and described
C11_MissingIdSkipped ==
    LET renderable == SelectSeq(a_done, HasId)
    IN  /\ a_text = AttachText(<<"m">>, renderable)
        /\ a_files = AttachFiles(renderable)
        /\ \A k \in 1..Len(a_files) :
               renderable[k].name = None => a_files[k].name = <<"f","i","l","e">>

(***************************************************************************)
(* C12: outside code fences, every colon-delimited token of the raw body   *)
(* whose name is made of the shortcode characters is rewritten: the        *)
(* normalized text contains the glyph of a known name and [emoji:<name>]   *)
(* for an unknown one, and holds none of the tokens in its colon form;     *)
(* tokens that share a colon with a neighbour are included.                *)
(***************************************************************************)
\* the pairs << i, j >> of the colons that delimit a shortcode-shaped token of s
ShortcodeTokens(s) ==
    { ij \in (1..Len(s)) \X (1..Len(s)) :
          /\ ij[1] + 1 < ij[2]
          /\ s[ij[1]] = ":"
          /\ s[ij[2]] = ":"
          /\ \A k \in (ij[1] + 1)..(ij[2] - 1) : s[k] \in EmojiNameChars }

\* C12: every shortcode-shaped token of a fence-free body is rewritten
C12_EveryShortcodeRewritten ==
    (t_pc = "done" /\ ~Contains(t_raw, Fence)) =>
        \A ij \in ShortcodeTokens(t_raw) :
            /\ Contains(t_text, emoji_sub(Slice(t_raw, ij[1] + 1, ij[2] - 1)))
            /\ ~Contains(t_text, Slice(t_raw, ij[1], ij[2]))

(***************************************************************************)
(* C13: once handle_reassemble has made the call, the three filter         *)
(* settings it passed are all TRUE when human_only is set (what setting    *)
(* the three flags alone gives) and the three individual flags unchanged   *)
(* when it is not; the toggle changes no other setting of the call.        *)
(***************************************************************************)
FlagNames == {"filter_bots", "filter_automation_channels", "filter_automated_content"}

\* the settings reassemble_messages received, by flag name
PassedFlag ==
    [name \in FlagNames |->
        CASE name = "filter_bots" -> filter_bots
          [] name = "filter_automation_channels" -> filter_automation_channels
          [] name = "filter_automated_content" -> filter_automated_content]

\* C13: human_only passes the three filters as enabled, and nothing else
C13_HumanOnlyIsTheThreeFilters ==
    (h_pc \in {"call", "done", "raised"}) =>
        /\ GetAttr(args, "human_only", FALSE) => \A name \in FlagNames : PassedFlag[name] = TRUE
        /\ ~GetAttr(args, "human_only", FALSE) =>
               \A name \in FlagNames : PassedFlag[name] = GetAttr(args, name, FALSE)
        /\ group_turns = ~args.all_turns
        /\ absolute_timestamps = args.absolute_timestamps
        /\ (bot_users = None) = ~filter_bots

\* C13 witness: human_only alone, and the run has dropped a bot message and
\* skipped a keyword directory
C13_Witness ==
    /\ h_pc = "call"
    /\ "human_only" \in DOMAIN args
    /\ args.human_only
    /\ \A name \in FlagNames : ~args[name]
    /\ stats.filtered_bot_msgs = 1
    /\ stats.filtered_channels = 1

(***************************************************************************)
(* C19: handle_reassemble accepts the value reassemble_messages returns:   *)
(* it never raises between the pipeline call and the write, and once the   *)
(* handler has left the call the artifact is written.                      *)
(***************************************************************************)
C19_ReturnAccepted ==
    /\ h_pc # "raised"
    /\ (h_pc \notin {"idle", "start", "call"}) => written # None

(***************************************************************************)
(* C14: on return, every table-of-contents entry e points at its section's *)
(* heading: the element of the returned document list at position e.index  *)
(* (positions counted as the program's list counts them, from 0) is the    *)
(* heading of the section named e.name, and the entries are in input       *)
(* directory order.                                                        *)
(***************************************************************************)
\* whether list[i] exists, i a position of the program's list (from 0)
InList(list, i) == 0 <= i /\ i < Len(list)

\* list[i], i a position of the program's list (from 0)
ListAt(list, i) == list[i + 1]

\* the directories that were entered and not skipped, in input order
OpenedDirs == SelectSeq(dirs, LAMBDA d : ~d.skipped)

\* C14: the element at position e.index is the heading of e's section
C14_TocEntryPointsAtHeading ==
    pc = "done" =>
        /\ Len(toc_entries) = Len(OpenedDirs)
        /\ \A k \in 1..Len(toc_entries) :
               LET e == toc_entries[k]
               IN  /\ e.name = DisplayNameOf[OpenedDirs[k].name]
                   /\ InList(output_md, e.index)
                   /\ IsHeading(ListAt(output_md, e.index))
                   /\ ListAt(output_md, e.index).name = e.name

(***************************************************************************)
(* C15: every emitted turn, and the pending block, carries the author and  *)
(* the formatted timestamp of the first message of its run; appending a    *)
(* same-author message to the current block leaves last_ts unchanged.      *)
(***************************************************************************)
\* the formatted timestamp of record i under the run's timestamp setting
StampOf(i) == FormatTs(seen[i].ts, absolute_timestamps)

C15_CarriesFirstOfRun ==
    /\ \A k \in 1..Len(output_md) :
           IsTurn(output_md[k]) =>
               /\ output_md[k].src # << >>
               /\ output_md[k].name = NameOf(output_md[k].src[1])
               /\ output_md[k].ts = StampOf(output_md[k].src[1])
    /\ block_src # << >> =>
           /\ previous_user = Some(NameOf(block_src[1]))
           /\ last_ts = Some(StampOf(block_src[1]))

C15_AppendStep ==
    (Len(block_src) >= 1 /\ Len(block_src') = Len(block_src) + 1) => last_ts' = last_ts

\* C15: turns carry the author and timestamp of the first message of the run
C15_TurnStampIsFirstOfRun == [] C15_CarriesFirstOfRun /\ [][C15_AppendStep]_vars

\* C15 witness: an emitted turn of two messages whose formatted timestamps
\* differ, stamped with the first
C15_Witness ==
    \E k \in 1..Len(output_md) :
        /\ IsTurn(output_md[k])
        /\ Len(output_md[k].src) = 2
        /\ StampOf(output_md[k].src[1]) # StampOf(output_md[k].src[2])
        /\ output_md[k].ts = StampOf(output_md[k].src[1])

(***************************************************************************)
(* C16: the rendered body of a message, before attachment references are   *)
(* appended, has no leading and no trailing whitespace, with or without    *)
(* code fences in the raw body.                                            *)
(***************************************************************************)
C16_RenderedBodyTrimmed ==
    t_pc = "done" =>
        /\ t_text = Strip(t_text)
        /\ (t_text # << >> => (t_text[1] \notin Whitespace /\ t_text[Len(t_text)] \notin Whitespace))

(***************************************************************************)
(* C17: aggregation loses and duplicates no surviving message: at every    *)
(* point of the run the messages of the emitted turns, in output order,    *)
(* followed by those of the pending block, are the survivors read so far   *)
(* in traversal order; on return every survivor lies in exactly one        *)
(* emitted turn, whose body is the rendered texts of its messages joined   *)
(* by a blank line; the last pending block is emitted by the final flush,  *)
(* and no turn without messages is ever emitted.                           *)
(***************************************************************************)
RECURSIVE Flatten(_)
Flatten(seqs) == IF seqs = << >> THEN << >> ELSE Head(seqs) \o Flatten(Tail(seqs))

\* the records of the emitted turns, in output order
EmittedSrcs == LET turns == Turns IN Flatten([k \in 1..Len(turns) |-> turns[k].src])

\* C17: the emitted turns hold every survivor exactly once, in traversal order
C17_NoSurvivorLostOrDuplicated ==
    LET turns == Turns
        survivors == Survivors
    IN  /\ \A k \in 1..Len(turns) :
               /\ turns[k].src # << >>
               /\ turns[k].body = JoinWith(<<"\n", "\n">>, BodiesOf(turns[k].src))
        /\ pc # "done" => EmittedSrcs \o block_src = survivors
        /\ pc = "done" =>
               /\ EmittedSrcs = survivors
               /\ \A i \in Range(survivors) :
                      Cardinality({k \in 1..Len(turns) : i \in Range(turns[k].src)}) = 1
               /\ survivors # << >> => turns[Len(turns)].src = block_src

\* C17 witness: three survivors, returned as a turn of two messages followed
\* by a turn of one, the second emitted by the final flush
C17_Witness ==
    /\ pc = "done"
    /\ Len(Survivors) = 3
    /\ Len(Turns) = 2
    /\ Len(Turns[1].src) = 2
    /\ Turns[2].src = block_src

(***************************************************************************)
(* C18: drop accounting is exact: the two per-message drop counters and    *)
(* the number of structured records add up to the number of records of     *)
(* the conversations that were not skipped; a record matching both the bot *)
(* filter and the content filter is counted once, as a bot message; the    *)
(* counter of a filter that is not enabled is zero; no counter decreases.  *)
(***************************************************************************)
Counters == {"channels", "dms", "group_msgs", "filtered_channels", "filtered_bot_msgs",
             "filtered_content_msgs"}

\* the records of the conversations that were entered and not skipped
ReadRecords == {i \in Ids : ~dirs[seen[i].convo].skipped}

C18_Accounts ==
    /\ ReadRecords = Ids
    /\ stats.filtered_bot_msgs + stats.filtered_content_msgs + Len(output_jsonl)
           = Cardinality(ReadRecords)
    /\ stats.filtered_bot_msgs = Cardinality({i \in Ids : filter_bots /\ BotAuthored(i)})
    /\ stats.filtered_content_msgs
           = Cardinality({i \in Ids : ~(filter_bots /\ BotAuthored(i))
                                       /\ filter_automated_content /\ AutomatedText(i)})
    /\ ~filter_bots => stats.filtered_bot_msgs = 0
    /\ ~filter_automated_content => stats.filtered_content_msgs = 0
    /\ ~filter_automation_channels => stats.filtered_channels = 0

C18_CounterStep ==
    /\ \A c \in Counters : stats'[c] >= stats[c]
    /\ (Len(seen') = Len(seen) + 1) =>
           LET rec == seen'[Len(seen')]
               both == /\ filter_bots /\ bot_users # None /\ rec.user \in bot_users[1]
                       /\ filter_automated_content
                       /\ AutomatedContentOf[[user |-> rec.user, text |-> rec.text, files |-> rec.files]]
           IN  both => /\ stats'.filtered_bot_msgs = stats.filtered_bot_msgs + 1
                       /\ stats'.filtered_content_msgs = stats.filtered_content_msgs

\* C18: the drop counters and the structured records account for every record read
C18_DropAccountingExact == [] C18_Accounts /\ [][C18_CounterStep]_vars

\* C18 witness: a record matching both filters counted as a bot message, one
\* dropped for its content alone, and one survivor
C18_Witness ==
    /\ Len(seen) = 3
    /\ filter_bots /\ BotAuthored(1)
    /\ filter_automated_content /\ AutomatedText(1)
    /\ stats.filtered_bot_msgs = 1
    /\ stats.filtered_content_msgs = 1
    /\ Len(output_jsonl) = 1

(***************************************************************************)
(* C20: cleanup_slackdump deletes no upload folder whose name is the id of *)
(* an attachment referenced by a message of any conversation directory of  *)
(* the export (channel, direct message or group), and with dry_run set it  *)
(* deletes nothing at all.                                                 *)
(***************************************************************************)
\* the ids referenced by the messages of any conversation directory
ReferencedAnywhere == UNION { IdsIn(root.convos[d]) : d \in DOMAIN root.convos }

\* C20: no referenced upload folder is deleted, and dry_run deletes nothing
C20_ReferencedUploadsKept ==
    /\ \A f \in ReferencedAnywhere : <<"upload", f>> \notin removed
    /\ dry_run => removed = {}

====
